---- MODULE Spec2Model ----
(***************************************************************************)
(* Model of Scraper.py: the LinkedIn job scraper.  Text is modelled as a   *)
(* sequence of one-character strings so that lower-casing, substring tests *)
(* and the regular expression of is_within_12_hours are computed the way   *)
(* the program computes them.                                              *)
(***************************************************************************)
EXTENDS Integers, Sequences, FiniteSets, TLC

\* Python's None: a value that is no text (texts are sequences of characters)
None == <<"None">>

(***************************************************************************)
(* Bounds of the model.                                                    *)
(***************************************************************************)
NumCompanies == 2      \* prefix of company_names that a run iterates over
MaxCards == 2          \* cards on one listing page
MaxJobs == 2           \* cards the site serves for one company in one run
MaxN == 13             \* largest count in a generated posted-text

(***************************************************************************)
(* Configuration (lines 13-38).                                            *)
(***************************************************************************)
company_names == SubSeq(<<"Uber", "Expedia", "Razorpay", "Rubrik">>, 1, NumCompanies)

tech_keywords == <<
    <<"j","a","v","a">>,
    <<"n","o","d","e">>,
    <<"r","e","a","c","t">>,
    <<"r","e","a","c","t","j","s">>,
    <<"a","w","s">>,
    <<"c","l","o","u","d">>,
    <<"m","i","c","r","o","s","e","r","v","i","c","e","s">>,
    <<"d","i","s","t","r","i","b","u","t","e","d"," ","s","y","s","t","e","m","s">>,
    <<"a","p","i">>,
    <<"r","e","s","t">>,
    <<"d","o","c","k","e","r">>,
    <<"j","e","n","k","i","n","s">>,
    <<"e","v","e","n","t","-","d","r","i","v","e","n">>,
    <<"l","a","m","b","d","a">>,
    <<"e","c","2">>,
    <<"s","p","r","i","n","g">>,
    <<"j","a","v","a","s","c","r","i","p","t">>,
    <<"t","y","p","e","s","c","r","i","p","t">>,
    <<"h","t","m","l">>,
    <<"c","s","s">>,
    <<"g","r","a","p","h","q","l">>,
    <<"r","e","s","t","f","u","l">>,
    <<"j","e","s","t">>,
    <<"m","o","c","h","a">>,
    <<"c","y","p","r","e","s","s">>,
    <<"p","u","p","p","e","t","e","e","r">> >>

title_keywords == <<
    <<"e","n","g","i","n","e","e","r">>,
    <<"s","d","e">>,
    <<"s","w","e">>,
    <<"d","e","v","e","l","o","p","e","r">>,
    <<"f","u","l","l"," ","s","t","a","c","k">>,
    <<"m","t","s">>,
    <<"u","i">>,
    <<"w","e","b">>,
    <<"m","e","m","b","e","r"," ","o","f"," ","t","e","c","h","n","i","c","a","l"," ","s","t","a","f","f">>,
    <<"s","o","f","t","w","a","r","e">> >>

(***************************************************************************)
(* Python string primitives used by the program.                           *)
(***************************************************************************)
LowerMap ==
    ("A" :> "a") @@ ("B" :> "b") @@ ("C" :> "c") @@ ("D" :> "d") @@ ("E" :> "e") @@
    ("F" :> "f") @@ ("G" :> "g") @@ ("H" :> "h") @@ ("I" :> "i") @@ ("J" :> "j") @@
    ("K" :> "k") @@ ("L" :> "l") @@ ("M" :> "m") @@ ("N" :> "n") @@ ("O" :> "o") @@
    ("P" :> "p") @@ ("Q" :> "q") @@ ("R" :> "r") @@ ("S" :> "s") @@ ("T" :> "t") @@
    ("U" :> "u") @@ ("V" :> "v") @@ ("W" :> "w") @@ ("X" :> "x") @@ ("Y" :> "y") @@
    ("Z" :> "z")

\* str.lower()
lower(s) == [i \in 1..Len(s) |-> IF s[i] \in DOMAIN LowerMap THEN LowerMap[s[i]] ELSE s[i]]

\* s[k:] starts with w  (k is a 1-based position)
StartsWithAt(s, k, w) ==
    /\ k >= 1
    /\ k + Len(w) - 1 <= Len(s)
    /\ \A i \in 1..Len(w) : s[k + i - 1] = w[i]

\* the Python test  w in s  on strings
In(w, s) == \E k \in 1..(Len(s) + 1) : StartsWithAt(s, k, w)

DigitVal ==
    ("0" :> 0) @@ ("1" :> 1) @@ ("2" :> 2) @@ ("3" :> 3) @@ ("4" :> 4) @@
    ("5" :> 5) @@ ("6" :> 6) @@ ("7" :> 7) @@ ("8" :> 8) @@ ("9" :> 9)

IsDigit(c) == c \in DOMAIN DigitVal

IsSpace(c) == c \in {" ", "\t", "\n"}

RECURSIVE int(_)
\* int() of a string of decimal digits
int(ds) == IF Len(ds) = 0 THEN 0
           ELSE 10 * int(SubSeq(ds, 1, Len(ds) - 1)) + DigitVal[ds[Len(ds)]]

(***************************************************************************)
(* re.search(r"(\d+)\s*(hour|day)", t): the matches that start at position *)
(* i are the triples <<j, k, u>> with digits in i..j, white space in       *)
(* j+1..k-1 and the unit u at k.  The search returns the match at the      *)
(* leftmost i, preferring the longest digit run, then the longest white    *)
(* space run, then "hour" over "day".                                      *)
(***************************************************************************)
HOUR == <<"h","o","u","r">>
DAY == <<"d","a","y">>

MatchesAt(t, i) ==
    { m \in { j \in i..Len(t) : \A x \in i..j : IsDigit(t[x]) }
             \X ((i + 1)..(Len(t) + 1)) \X {"hour", "day"} :
        /\ m[2] > m[1]
        /\ \A x \in (m[1] + 1)..(m[2] - 1) : IsSpace(t[x])
        /\ StartsWithAt(t, m[2], IF m[3] = "hour" THEN HOUR ELSE DAY) }

Prefer(a, b) ==
    \/ a[1] > b[1]
    \/ a[1] = b[1] /\ a[2] > b[2]
    \/ a[1] = b[1] /\ a[2] = b[2] /\ (a[3] = "hour" \/ b[3] = "day")

\* the match object as <<v, u>>, or None
SearchHourDay(t) ==
    LET starts == { i \in 1..Len(t) : IsDigit(t[i]) /\ MatchesAt(t, i) # {} } IN
    IF starts = {} THEN None
    ELSE LET i == CHOOSE x \in starts : \A y \in starts : x <= y
             m == CHOOSE a \in MatchesAt(t, i) : \A b \in MatchesAt(t, i) : Prefer(a, b)
         IN  <<int(SubSeq(t, i, m[1])), m[3]>>

JUST_NOW == <<"j","u","s","t"," ","n","o","w">>
MINUTE == <<"m","i","n","u","t","e">>

\* the hour limit taken as exclusive
is_within_12_hours_strict(text) ==
    LET t == lower(text) IN
    IF In(JUST_NOW, t) \/ In(MINUTE, t) THEN TRUE
    ELSE LET m == SearchHourDay(t) IN
         IF m # None
         THEN (m[2] = "hour" /\ m[1] < 12) \/ (m[2] = "day" /\ m[1] = 0)
         ELSE FALSE

is_within_12_hours(text) ==
    LET t == lower(text) IN
    IF In(JUST_NOW, t) \/ In(MINUTE, t) THEN TRUE
    ELSE LET m == SearchHourDay(t) IN
         IF m # None
         THEN (m[2] = "hour" /\ m[1] <= 12) \/ (m[2] = "day" /\ m[1] = 0)
         ELSE FALSE

(***************************************************************************)
(* The posted-texts the site shows on a card: a count and a unit in one of *)
(* three styles, or "Just now", "Yesterday" or nothing.                    *)
(***************************************************************************)
Digits == <<"0","1","2","3","4","5","6","7","8","9">>

RECURSIVE str(_)
\* decimal numeral of a natural number
str(n) == IF n < 10 THEN <<Digits[n + 1]>> ELSE str(n \div 10) \o <<Digits[(n % 10) + 1]>>

UnitWord ==
    ("minute" :> MINUTE) @@ ("hour" :> HOUR) @@ ("day" :> DAY) @@
    ("week" :> <<"w","e","e","k">>) @@ ("month" :> <<"m","o","n","t","h">>)

Units == DOMAIN UnitWord

Styles == {"bare", "ago", "tight"}

JustNow == <<"J","u","s","t"," ","n","o","w">>
Yesterday == <<"Y","e","s","t","e","r","d","a","y">>

\* the text of a count and a unit; with the unit "phrase", a text without a count
PostedText(n, unit, style) ==
    IF unit = "phrase"
    THEN CASE style = "bare"  -> JustNow
           [] style = "ago"   -> Yesterday
           [] style = "tight" -> <<>>
    ELSE CASE style = "bare"  -> str(n) \o <<" ">> \o UnitWord[unit]
           [] style = "ago"   -> str(n) \o <<" ">> \o UnitWord[unit] \o <<"s"," ","a","g","o">>
           [] style = "tight" -> str(n) \o UnitWord[unit] \o <<"s">>

(***************************************************************************)
(* What the site can answer.  A company profile page (lines 80-83): the    *)
(* request times out, or returns an error status, or returns markup whose  *)
(* organization marker sits on a given line (0: no marker at all).         *)
(***************************************************************************)
SnippetLines == 500

\* the organization identifier the site shows for a company
OrgId ==
    ("Uber" :> <<"1","8","1","5">>) @@ ("Expedia" :> <<"2","7","5","1">>) @@
    ("Razorpay" :> <<"3","7","8","8">>) @@ ("Rubrik" :> <<"4","8","4","0">>)

ProfileResponses(company_name) ==
    { [kind |-> "timeout"], [kind |-> "http_error"] } \cup
    { [kind |-> "ok", marker_line |-> l, id |-> OrgId[company_name]] :
        l \in {0, 1, SnippetLines, SnippetLines + 1} }

\* the identifier is cached in memory but the cache file is not written
get_company_id_from_page_unsaved(company_name, cache, resp) ==
    IF company_name \in DOMAIN cache
    THEN [cid |-> cache[company_name], cache |-> cache, net |-> FALSE, saved |-> FALSE]
    ELSE IF resp.kind = "ok" /\ resp.marker_line >= 1 /\ resp.marker_line <= SnippetLines
         THEN [cid |-> resp.id, cache |-> (company_name :> resp.id) @@ cache,
               net |-> TRUE, saved |-> FALSE]
         ELSE [cid |-> None, cache |-> cache, net |-> TRUE, saved |-> FALSE]

\* get_company_id_from_page as a function of the cache and of the response
\* the request would get: the value returned, the cache afterwards, and
\* whether the request and the write of the cache file took place.
get_company_id_from_page(company_name, cache, resp) ==
    IF company_name \in DOMAIN cache
    THEN [cid |-> cache[company_name], cache |-> cache, net |-> FALSE, saved |-> FALSE]
    ELSE IF resp.kind = "ok" /\ resp.marker_line >= 1 /\ resp.marker_line <= SnippetLines
         THEN [cid |-> resp.id, cache |-> (company_name :> resp.id) @@ cache,
               net |-> TRUE, saved |-> TRUE]
         ELSE [cid |-> None, cache |-> cache, net |-> TRUE, saved |-> FALSE]

(***************************************************************************)
(* A listing card (lines 144-147).  A field is None when its selector      *)
(* finds nothing.                                                          *)
(***************************************************************************)
Titles == { <<"S","o","f","t","w","a","r","e"," ","E","n","g","i","n","e","e","r">>,
            <<"S","a","l","e","s"," ","M","a","n","a","g","e","r">> }

Hrefs == { <<"/","1">>, <<"/","1","?","a">>, <<"/","2","?","b">> }

CardPosted == { PostedText(5, "hour", "ago"), PostedText(2, "day", "ago") }

GoodCards == [title : Titles, subtitle : { <<"U","b","e","r">> }, href : Hrefs, time : CardPosted]

BadCards ==
    LET g == [title |-> CHOOSE x \in Titles : TRUE, subtitle |-> <<"U","b","e","r">>,
              href |-> <<"/","1">>, time |-> PostedText(5, "hour", "ago")] IN
    { [g EXCEPT !.title = None], [g EXCEPT !.subtitle = None],
      [g EXCEPT !.href = None], [g EXCEPT !.time = None] }

Cards == GoodCards \cup BadCards

Malformed(card) ==
    card.title = None \/ card.subtitle = None \/ card.href = None \/ card.time = None

\* href.split("?")[0]
Canonical(href) ==
    LET qs == { i \in 1..Len(href) : href[i] = "?" } IN
    IF qs = {} THEN href
    ELSE SubSeq(href, 1, (CHOOSE i \in qs : \A j \in qs : i <= j) - 1)

(***************************************************************************)
(* A job detail page (lines 157-175): the text of the description block    *)
(* (None when the page has no such block) and the matches EXPERIENCE_RE    *)
(* finds in the qualification text, each with its min group and its max    *)
(* group (None when the range part did not take part in the match).        *)
(***************************************************************************)
JAVA_AWS == <<"W","e"," ","u","s","e"," ","J","a","v","a"," ","a","n","d"," ","A","W","S">>

Descriptions == { None, JAVA_AWS,
                  <<"G","r","o","w"," ","t","h","e"," ","s","a","l","e","s"," ","p","i","p","e","l","i","n","e">> }

M(lo, hi) == [min |-> lo, max |-> hi]

ExperienceMatches ==
    { <<>>,
      << M(<<"2">>, <<"3">>) >>,
      << M(<<"2">>, <<"4">>) >>,
      << M(<<"3">>, None) >>,
      << M(<<"3",".","5">>, None) >>,
      << M(<<"5">>, None) >>,
      << M(<<"1">>, None) >>,
      << M(<<"0">>, <<"1",".","5">>) >>,
      << M(<<"2">>, <<"3">>), M(<<"4">>, <<"6">>) >> }

\* every description with a range that passes, every list of matches with a
\* description that passes
Details ==
    [desc : Descriptions, found : { << M(<<"2">>, <<"3">>) >> }] \cup
    [desc : {JAVA_AWS}, found : ExperienceMatches]

\* float() of a numeral with at most one decimal, in tenths
float(g) ==
    LET dots == { i \in 1..Len(g) : g[i] = "." } IN
    IF dots = {} THEN 10 * int(g)
    ELSE LET d == CHOOSE i \in dots : TRUE IN
         10 * int(SubSeq(g, 1, d - 1)) + int(SubSeq(g, d + 1, Len(g)))

RECURSIVE extract_nums(_)
\* lines 171-175
extract_nums(found) ==
    IF found = <<>> THEN <<>>
    ELSE LET m == Head(found)
             lo == float(m.min)
             hi == IF m.max # None THEN float(m.max) ELSE lo
         IN  <<lo, hi>> \o extract_nums(Tail(found))

\* line 160
description_of(detail) == IF detail.desc # None THEN lower(detail.desc) ELSE <<>>

\* line 167: the job passes the title filter
title_gate(title, description) ==
    ~ ( ~ (\E i \in 1..Len(title_keywords) : In(title_keywords[i], lower(title)))
        \/ description = <<>> )

\* the upper limit taken as inclusive
ok_exp_inclusive(nums) ==
    /\ \E i \in 1..Len(nums) : 2 * 10 <= nums[i] /\ nums[i] <= 4 * 10
    /\ \A i \in 1..Len(nums) : nums[i] <= 4 * 10

\* line 177, numbers in tenths
ok_exp(nums) ==
    /\ \E i \in 1..Len(nums) : 2 * 10 <= nums[i] /\ nums[i] < 4 * 10
    /\ \A i \in 1..Len(nums) : nums[i] < 4 * 10

\* line 178
ok_tech(description) == \E i \in 1..Len(tech_keywords) : In(tech_keywords[i], description)

\* line 180
accept(nums, description) == nums # <<>> /\ ok_exp(nums) /\ ok_tech(description)

\* link in seen_jobs: the keys of seen_jobs are company names, never a link
already_seen_top_level(seen, company_name, link) == FALSE

\* line 154
already_seen(seen, company_name, link) ==
    link \in DOMAIN (IF company_name \in DOMAIN seen THEN seen[company_name] ELSE <<>>)

\* the dedup check placed before the recency check
card_outcome_dedup_first(posted, link, seen, company_name) ==
    IF already_seen(seen, company_name, link) THEN "seen"
    ELSE IF ~is_within_12_hours(posted) THEN "stale"
    ELSE "new"

\* lines 149-155: what the loop does with a well-formed card
card_outcome(posted, link, seen, company_name) ==
    IF ~is_within_12_hours(posted) THEN "stale"
    ELSE IF already_seen(seen, company_name, link) THEN "seen"
    ELSE "new"

\* seen_jobs[company_name] = {link: stamp}
Record_replace(seen, company_name, link, stamp) ==
    (company_name :> (link :> stamp)) @@ seen

\* seen_jobs.setdefault(company_name, {})[link] = stamp   (line 181)
Record(seen, company_name, link, stamp) ==
    (company_name :> ((link :> stamp) @@
        (IF company_name \in DOMAIN seen THEN seen[company_name] ELSE <<>>))) @@ seen

(***************************************************************************)
(* send_telegram_message, lines 102-117, as a function of the credentials  *)
(* and of what the request would do: whether the request is made, and      *)
(* whether the call raises.                                                *)
(***************************************************************************)
TelegramReplies == {"ok", "non200", "exception"}

\* the request made outside a try block
send_telegram_message_unguarded(has_creds, reply) ==
    IF ~has_creds
    THEN [outcome |-> "noop", post |-> FALSE, raises |-> FALSE]
    ELSE [outcome |-> reply, post |-> TRUE, raises |-> (reply = "exception")]

send_telegram_message(has_creds, reply) ==
    IF ~has_creds
    THEN [outcome |-> "noop", post |-> FALSE, raises |-> FALSE]
    ELSE [outcome |-> reply, post |-> TRUE, raises |-> FALSE]

(***************************************************************************)
(* State.                                                                  *)
(***************************************************************************)
VARIABLES
    pc,           \* position of main / fetch_jobs
    creds,        \* TELEGRAM_TOKEN and TELEGRAM_CHAT_ID are both set (lines 34-35)
    fc_file,      \* content of company_fc_cache.json
    seen_file,    \* content of seen_jobs_dict.json
    fc_cache,     \* main: fc_cache
    seen_jobs,    \* main / fetch_jobs: seen_jobs
    clock,        \* datetime.now()
    ci,           \* main: index of the company of the for loop
    cid,          \* main: cid
    start,        \* fetch_jobs: page offset of the for loop
    stop,         \* fetch_jobs: stop
    ncards,       \* fetch_jobs: len(cards) of the page being processed
    idx,          \* fetch_jobs: index of the card of the inner for loop
    jobs_left,    \* cards the site still has for this company
    cur,          \* fetch_jobs: title, comp, link, posted, description and the
                  \* matches of EXPERIENCE_RE of the card being processed
    matches,      \* fetch_jobs: matches
    rejects,      \* fetch_jobs: rejects
    profile,      \* response to the profile request of the last step
    ops,          \* requests and file writes performed by the last step
    caught,       \* the except clause of fetch_jobs the last step ran
    tg,           \* outcome of send_telegram_message in the last step
    notified,     \* calls of send_telegram_message per <<company, link>>
    visited,      \* companies the for loop of main has visited
    fetched,      \* companies fetch_jobs was called for
    seen_writes,  \* writes of seen_jobs_dict.json
    card_fault,   \* index of the company where a card lacked a field (0: none)
    input,        \* recency check: count, unit and style of the posted-text
    text,         \* recency check: the posted-text
    checked,      \* recency check: is_within_12_hours has returned
    verdict       \* recency check: what it returned

scrape_vars == <<pc, creds, fc_file, seen_file, fc_cache, seen_jobs, clock, ci, cid, start,
                 stop, ncards, idx, jobs_left, cur, matches, rejects, profile, ops, caught,
                 tg, notified, visited, fetched, seen_writes, card_fault>>

recency_vars == <<input, text, checked, verdict>>

vars == <<scrape_vars, recency_vars>>

\* range(0, 250, 25), line 128
PageStep == 25
PageLimit == 250

NoJob == [title |-> <<>>, comp |-> <<>>, link |-> <<>>, posted |-> <<>>,
          description |-> <<>>, found |-> <<>>]

NoProfile == [kind |-> "none"]

\* the reasons of lines 150, 168 and 195
STALE == "Not within 12h"
FILTER_FAIL == "Filter fail"
MISSING == "Missing skills/exp"

company == company_names[ci]

\* dict.get(key, {})
Get(d, k) == IF k \in DOMAIN d THEN d[k] ELSE <<>>

Count(k) == IF k \in DOMAIN notified THEN notified[k] ELSE 0

Min(a, b) == IF a <= b THEN a ELSE b

\* what a step that makes no request and runs no except clause leaves behind
Quiet == /\ profile' = NoProfile
         /\ ops' = {}
         /\ caught' = "none"
         /\ tg' = "none"

(***************************************************************************)
(* The two JSON files as earlier runs can have left them: any companies    *)
(* resolved, and per company no entry or some links of OldLinks recorded   *)
(* at time 0.                                                              *)
(***************************************************************************)
Names == { company_names[i] : i \in 1..Len(company_names) }

OldLinks == { <<"/","1">> }

FcFiles == { [c \in cs |-> OrgId[c]] : cs \in SUBSET Names }

SeenFiles ==
    UNION { [cs -> { [l \in ls |-> 0] : ls \in (SUBSET OldLinks) \ {{}} }] :
            cs \in SUBSET Names }

ScrapeInit ==
    /\ pc = "start"
    /\ creds \in BOOLEAN
    /\ fc_file \in FcFiles
    /\ seen_file \in SeenFiles
    /\ fc_cache = <<>>
    /\ seen_jobs = <<>>
    /\ clock = 1
    /\ ci = 1
    /\ cid = None
    /\ start = 0
    /\ stop = FALSE
    /\ ncards = 0
    /\ idx = 1
    /\ jobs_left = 0
    /\ cur = NoJob
    /\ matches = <<>>
    /\ rejects = <<>>
    /\ profile = NoProfile
    /\ ops = {}
    /\ caught = "none"
    /\ tg = "none"
    /\ notified = <<>>
    /\ visited = <<>>
    /\ fetched = {}
    /\ seen_writes = 0
    /\ card_fault = 0

RecencyIdle ==
    /\ input = [n |-> 0, unit |-> "phrase", style |-> "tight"]
    /\ text = <<>>
    /\ checked = FALSE
    /\ verdict = FALSE

Init == ScrapeInit /\ RecencyIdle

(***************************************************************************)
(* main, lines 211-215: both files exist afterwards ({} when they did not) *)
(* and are loaded.                                                         *)
(***************************************************************************)
Load ==
    /\ pc = "start"
    /\ fc_cache' = fc_file
    /\ seen_jobs' = seen_file
    /\ pc' = "company"
    /\ Quiet
    /\ UNCHANGED <<creds, fc_file, seen_file, clock, ci, cid, start, stop, ncards, idx,
                   jobs_left, cur, matches, rejects, notified, visited, fetched,
                   seen_writes, card_fault>>
    /\ UNCHANGED recency_vars

\* break instead of continue: the for loop of main ends
Skip_break ==
    /\ ci' = Len(company_names) + 1
    /\ UNCHANGED pc

\* lines 219-221: the company is skipped
Skip ==
    /\ ci' = ci + 1
    /\ UNCHANGED pc

(***************************************************************************)
(* main, lines 217-223, one iteration of the for loop up to the call of    *)
(* fetch_jobs (lines 124-126).                                             *)
(***************************************************************************)
Company ==
    /\ pc = "company"
    /\ ci <= Len(company_names)
    /\ \E resp \in ProfileResponses(company) :
         LET r == get_company_id_from_page(company, fc_cache, resp) IN
         /\ cid' = r.cid
         /\ fc_cache' = r.cache
         /\ fc_file' = IF r.saved THEN r.cache ELSE fc_file
         /\ profile' = IF r.net THEN resp ELSE NoProfile
         /\ ops' = (IF r.net THEN {"get_profile"} ELSE {}) \cup
                   (IF r.saved THEN {"write_fc"} ELSE {})
         /\ visited' = Append(visited, company)
         /\ IF r.cid = None \/ r.cid = <<>>
            THEN /\ Skip
                 /\ UNCHANGED <<fetched, matches, rejects, stop, start, jobs_left>>
            ELSE /\ fetched' = fetched \cup {company}
                 /\ matches' = <<>>
                 /\ rejects' = <<>>
                 /\ stop' = FALSE
                 /\ start' = 0
                 /\ jobs_left' = MaxJobs
                 /\ pc' = "page"
                 /\ UNCHANGED ci
    /\ caught' = "none"
    /\ tg' = "none"
    /\ UNCHANGED <<creds, seen_file, seen_jobs, clock, ncards, idx, cur, notified,
                   seen_writes, card_fault>>
    /\ UNCHANGED recency_vars

\* main, lines 233-234
Save ==
    /\ pc = "company"
    /\ ci > Len(company_names)
    /\ fc_file' = fc_cache
    /\ seen_file' = seen_jobs
    /\ seen_writes' = seen_writes + 1
    /\ pc' = "done"
    /\ profile' = NoProfile
    /\ ops' = {"write_fc", "write_seen"}
    /\ caught' = "none"
    /\ tg' = "none"
    /\ UNCHANGED <<creds, fc_cache, seen_jobs, clock, ci, cid, start, stop, ncards, idx,
                   jobs_left, cur, matches, rejects, notified, visited, fetched,
                   card_fault>>
    /\ UNCHANGED recency_vars

(***************************************************************************)
(* fetch_jobs.  Return is line 203 followed by lines 225-231 of main.      *)
(***************************************************************************)
Return ==
    /\ pc' = "company"
    /\ ci' = ci + 1
    /\ cur' = NoJob

\* break in the except clause: the page loop ends
Except_break(where) ==
    /\ caught' = where
    /\ pc' = "company"
    /\ ci' = ci + 1
    /\ cur' = NoJob
    /\ UNCHANGED start

\* no except clause: the exception leaves fetch_jobs and main
Except_propagates(where) ==
    /\ caught' = where
    /\ pc' = "crashed"
    /\ cur' = NoJob
    /\ UNCHANGED <<ci, start>>

\* lines 199-201: the except clause, then the next iteration of the page loop
Except(where) ==
    /\ caught' = where
    /\ start' = start + PageStep
    /\ pc' = "page"
    /\ cur' = NoJob
    /\ UNCHANGED ci

\* lines 128-130: the page loop is exhausted or stop is set
PageEnd ==
    /\ pc = "page"
    /\ start >= PageLimit \/ stop
    /\ Return
    /\ Quiet
    /\ UNCHANGED <<creds, fc_file, seen_file, fc_cache, seen_jobs, clock, cid, start, stop,
                   ncards, idx, jobs_left, matches, rejects, notified, visited, fetched,
                   seen_writes, card_fault>>
    /\ UNCHANGED recency_vars

\* lines 131-141: request and parse one listing page
Page ==
    /\ pc = "page"
    /\ start < PageLimit /\ ~stop
    /\ profile' = NoProfile
    /\ ops' = {"get_listing"}
    /\ tg' = "none"
    /\ \/ /\ Except("listing")
          /\ UNCHANGED <<ncards, idx, jobs_left>>
       \/ /\ \E n \in 0..Min(MaxCards, jobs_left) :
               /\ ncards' = n
               /\ jobs_left' = jobs_left - n
               /\ idx' = 1
               /\ IF n = 0
                  THEN Return
                  ELSE pc' = "card" /\ UNCHANGED <<ci, cur>>
          /\ caught' = "none"
          /\ UNCHANGED start
    /\ UNCHANGED <<creds, fc_file, seen_file, fc_cache, seen_jobs, clock, cid, stop,
                   matches, rejects, notified, visited, fetched, seen_writes, card_fault>>
    /\ UNCHANGED recency_vars

\* line 143: no card is left on the page; the page loop goes on
PageDone ==
    /\ pc = "card"
    /\ idx > ncards
    /\ start' = start + PageStep
    /\ pc' = "page"
    /\ cur' = NoJob
    /\ Quiet
    /\ UNCHANGED <<creds, fc_file, seen_file, fc_cache, seen_jobs, clock, ci, cid, stop,
                   ncards, idx, jobs_left, matches, rejects, notified, visited,
                   fetched, seen_writes, card_fault>>
    /\ UNCHANGED recency_vars

\* lines 143-155: the fields of the next card, the recency check, the dedup check.
\* The content of a card is chosen when the loop reaches it.
Card ==
    /\ pc = "card"
    /\ idx <= ncards
    /\ profile' = NoProfile
    /\ ops' = {}
    /\ tg' = "none"
    /\ \E card \in Cards :
         IF Malformed(card)
         THEN /\ Except("card")
              /\ card_fault' = ci
              /\ UNCHANGED <<idx, stop, rejects>>
         ELSE LET title == card.title
                  comp == card.subtitle
                  link == Canonical(card.href)
                  posted == card.time
                  what == card_outcome(posted, link, seen_jobs, company)
              IN
              /\ cur' = [NoJob EXCEPT !.title = title, !.comp = comp,
                                      !.link = link, !.posted = posted]
              /\ caught' = "none"
              /\ UNCHANGED <<ci, card_fault>>
              /\ CASE what = "stale" ->
                        /\ rejects' = Append(rejects, <<title, comp, link, STALE>>)
                        /\ stop' = TRUE
                        /\ start' = start + PageStep
                        /\ pc' = "page"
                        /\ UNCHANGED idx
                   [] what = "seen" ->
                        /\ idx' = idx + 1
                        /\ UNCHANGED <<pc, start, stop, rejects>>
                   [] what = "new" ->
                        /\ pc' = "detail"
                        /\ UNCHANGED <<idx, start, stop, rejects>>
    /\ UNCHANGED <<creds, fc_file, seen_file, fc_cache, seen_jobs, clock, cid, ncards,
                   jobs_left, matches, notified, visited, fetched, seen_writes>>
    /\ UNCHANGED recency_vars

\* lines 157-165: request and parse the detail page
Detail ==
    /\ pc = "detail"
    /\ profile' = NoProfile
    /\ ops' = {"get_detail"}
    /\ tg' = "none"
    /\ \/ Except("detail")
       \/ /\ \E d \in Details :
               cur' = [cur EXCEPT !.description = description_of(d), !.found = d.found]
          /\ pc' = "classify"
          /\ caught' = "none"
          /\ UNCHANGED <<ci, start>>
    /\ UNCHANGED <<creds, fc_file, seen_file, fc_cache, seen_jobs, clock, cid, stop, ncards,
                   idx, jobs_left, matches, rejects, notified, visited, fetched,
                   seen_writes, card_fault>>
    /\ UNCHANGED recency_vars

\* lines 167-181 and 194-197: the filters, and the recording of an accepted job
Classify ==
    /\ pc = "classify"
    /\ Quiet
    /\ IF ~title_gate(cur.title, cur.description)
       THEN /\ rejects' = Append(rejects, <<cur.title, cur.comp, cur.link, FILTER_FAIL>>)
            /\ idx' = idx + 1
            /\ pc' = "card"
            /\ cur' = NoJob
            /\ UNCHANGED <<seen_jobs, clock>>
       ELSE IF accept(extract_nums(cur.found), cur.description)
       THEN /\ seen_jobs' = Record(seen_jobs, company, cur.link, clock)
            /\ clock' = clock + 1
            /\ pc' = "notify"
            /\ UNCHANGED <<rejects, idx, cur>>
       ELSE /\ rejects' = Append(rejects, <<cur.title, cur.comp, cur.link, MISSING>>)
            /\ idx' = idx + 1
            /\ pc' = "card"
            /\ cur' = NoJob
            /\ UNCHANGED <<seen_jobs, clock>>
    /\ UNCHANGED <<creds, fc_file, seen_file, fc_cache, ci, cid, start, stop, ncards,
                   jobs_left, matches, notified, visited, fetched, seen_writes, card_fault>>
    /\ UNCHANGED recency_vars

\* lines 182-197: the notification, the append to matches, the pause
Notify ==
    /\ pc = "notify"
    /\ profile' = NoProfile
    /\ notified' = (<<company, cur.link>> :> (Count(<<company, cur.link>>) + 1)) @@ notified
    /\ \E reply \in TelegramReplies :
         LET r == send_telegram_message(creds, reply) IN
         /\ tg' = r.outcome
         /\ ops' = {"send_telegram_message"} \cup (IF r.post THEN {"post_telegram"} ELSE {})
         /\ IF r.raises
            THEN /\ Except("notify")
                 /\ UNCHANGED <<matches, idx>>
            ELSE /\ matches' = Append(matches, [title |-> cur.title, company |-> cur.comp,
                                                posted |-> cur.posted, link |-> cur.link])
                 /\ idx' = idx + 1
                 /\ pc' = "card"
                 /\ cur' = NoJob
                 /\ caught' = "none"
                 /\ UNCHANGED <<ci, start>>
    /\ UNCHANGED <<creds, fc_file, seen_file, fc_cache, seen_jobs, clock, cid, stop, ncards,
                   jobs_left, rejects, visited, fetched, seen_writes, card_fault>>
    /\ UNCHANGED recency_vars

Next ==
    \/ Load
    \/ Company
    \/ Save
    \/ PageEnd
    \/ Page
    \/ PageDone
    \/ Card
    \/ Detail
    \/ Classify
    \/ Notify

Spec == Init /\ [][Next]_vars

(***************************************************************************)
(* The recency check on its own: a posted-text is drawn and checked.       *)
(***************************************************************************)
Inputs == [n : 0..MaxN, unit : Units, style : Styles] \cup
          [n : {0}, unit : {"phrase"}, style : Styles]

RecencyInit ==
    /\ ScrapeInit
    /\ ~creds
    /\ fc_file = <<>>
    /\ seen_file = <<>>
    /\ input \in Inputs
    /\ text = PostedText(input.n, input.unit, input.style)
    /\ checked = FALSE
    /\ verdict = FALSE

Check ==
    /\ ~checked
    /\ checked' = TRUE
    /\ verdict' = is_within_12_hours(text)
    /\ UNCHANGED <<input, text>>
    /\ UNCHANGED scrape_vars

RecencyNext == Check

RecencySpec == RecencyInit /\ [][RecencyNext]_vars

(***************************************************************************)
(* Properties.                                                             *)
(***************************************************************************)
Range(q) == { q[i] : i \in 1..Len(q) }

Last(q) == q[Len(q)]

\* the step processes a well-formed card (lines 144-155)
CardStep == pc = "card" /\ idx <= ncards /\ caught' = "none"

\* every entry of seen stays in seen2 with its timestamp
Keeps(seen, seen2) ==
    \A c \in DOMAIN seen :
        /\ c \in DOMAIN seen2
        /\ \A l \in DOMAIN seen[c] : l \in DOMAIN seen2[c] /\ seen2[c][l] = seen[c][l]

\* the conditions of the Match Classifier on a job whose detail page was parsed
Passes(j) ==
    LET nums == extract_nums(j.found) IN
    /\ \E i \in 1..Len(title_keywords) : In(title_keywords[i], lower(j.title))
    /\ j.description # <<>>
    /\ nums # <<>>
    /\ \E i \in 1..Len(nums) : nums[i] >= 20 /\ nums[i] < 40
    /\ \A i \in 1..Len(nums) : nums[i] < 40
    /\ \E i \in 1..Len(tech_keywords) : In(tech_keywords[i], j.description)

(***************************************************************************)
(* C1.  A card whose canonical link is already under the company's entry   *)
(* of seen_jobs, loaded or recorded in this run, is skipped: the step      *)
(* makes no request and no notification.  No detail page is requested for  *)
(* a recorded link, a link loaded from the file is never notified, no link *)
(* is notified twice, and every notified link is in the file at the end of *)
(* the run, where the next run finds it.                                   *)
(***************************************************************************)
DedupState ==
    /\ \A k \in DOMAIN notified : notified[k] <= 1
    /\ \A c \in DOMAIN seen_jobs : \A l \in DOMAIN seen_jobs[c] :
           seen_jobs[c][l] = 0 => Count(<<c, l>>) = 0
    /\ pc \in {"detail", "classify"} => cur.link \notin DOMAIN Get(seen_jobs, company)
    /\ pc = "done" => \A k \in DOMAIN notified : k[2] \in DOMAIN Get(seen_file, k[1])

DedupStep ==
    (CardStep /\ is_within_12_hours(cur'.posted)
              /\ cur'.link \in DOMAIN Get(seen_jobs, company))
    => /\ pc' = "card"
       /\ idx' = idx + 1
       /\ ops' = {}
       /\ tg' = "none"
       /\ UNCHANGED <<notified, seen_jobs, matches, rejects>>

NoRenotification == []DedupState /\ [][DedupStep]_vars

\* a link recorded in this run came up again and was skipped
SeenCardSkipped ==
    /\ pc = "card"
    /\ cur.link # <<>>
    /\ cur.link \in DOMAIN Get(seen_jobs, company)
    /\ seen_jobs[company][cur.link] >= 1
    /\ Count(<<company, cur.link>>) = 1

(***************************************************************************)
(* C2.  A classified job is accepted exactly when its title has a title    *)
(* keyword, its description is not empty, its numbers are not empty, one   *)
(* of them is in [2, 4), all are below 4, and the description has a        *)
(* technology keyword.  Numbers 2.0, 4.0 and an empty list are rejected.   *)
(* An accepted job is recorded, then notified and appended to matches.     *)
(***************************************************************************)
AcceptStep ==
    /\ pc = "classify" =>
         /\ (pc' = "notify") <=> Passes(cur)
         /\ pc' = "notify" => /\ cur.link \in DOMAIN Get(seen_jobs', company)
                              /\ rejects' = rejects
         /\ pc' # "notify" => /\ seen_jobs' = seen_jobs
                              /\ Len(rejects') = Len(rejects) + 1
                              /\ Last(rejects')[3] = cur.link
                              /\ Last(rejects')[4] \in {FILTER_FAIL, MISSING}
         /\ extract_nums(cur.found) \in {<<>>, <<20, 40>>} => pc' # "notify"
    /\ pc = "notify" =>
         /\ "send_telegram_message" \in ops'
         /\ <<company, cur.link>> \in DOMAIN notified'
         /\ notified'[<<company, cur.link>>] = Count(<<company, cur.link>>) + 1
         /\ Len(matches') = Len(matches) + 1
         /\ Last(matches').link = cur.link

AcceptedIffAllGates == [][AcceptStep]_vars

\* a job with the range 2-3 has been accepted and recorded
AcceptedJob ==
    /\ pc = "notify"
    /\ extract_nums(cur.found) = <<20, 30>>
    /\ cur.link \in DOMAIN Get(seen_jobs, company)

(***************************************************************************)
(* C3.  is_within_12_hours is true of "Just now" and of every text with    *)
(* "minute"; of "{n} hour" exactly when n <= 12; of "{n} day" exactly when *)
(* n = 0; and false of weeks, months, "Yesterday" and the empty text.      *)
(***************************************************************************)
RecencyRule ==
    checked =>
        verdict = CASE input.unit = "phrase" -> (input.style = "bare")
                    [] input.unit = "minute" -> TRUE
                    [] input.unit = "hour"   -> (input.n <= 12)
                    [] input.unit = "day"    -> (input.n = 0)
                    [] OTHER                 -> FALSE

\* "12hours" has been accepted
TwelveHoursAccepted ==
    checked /\ input.unit = "hour" /\ input.n = 12 /\ input.style = "tight" /\ verdict

(***************************************************************************)
(* C4.  A card that fails the recency check is appended to rejects as      *)
(* stale and sets stop, whether or not its link is in seen_jobs; the step  *)
(* makes no request.  With stop set the next step returns from fetch_jobs: *)
(* no card, page or detail page is requested and nothing is recorded or    *)
(* notified.  Only a stale card sets stop.                                 *)
(***************************************************************************)
StaleStep ==
    /\ (CardStep /\ ~is_within_12_hours(cur'.posted)) =>
         /\ stop'
         /\ pc' = "page"
         /\ rejects' = Append(rejects, <<cur'.title, cur'.comp, cur'.link, STALE>>)
         /\ ops' = {}
         /\ UNCHANGED <<seen_jobs, notified, matches, ci>>
    /\ (pc = "page" /\ stop) =>
         /\ pc' = "company"
         /\ ci' = ci + 1
         /\ ops' = {}
         /\ UNCHANGED <<seen_jobs, notified, matches, rejects>>
    /\ (stop' /\ ~stop) =>
         /\ CardStep
         /\ ~is_within_12_hours(cur'.posted)

StaleState ==
    /\ pc \in {"card", "detail", "classify", "notify"} => ~stop
    /\ pc \in {"detail", "classify", "notify"} => is_within_12_hours(cur.posted)

StaleCardEndsPagination == []StaleState /\ [][StaleStep]_vars

\* a stale card whose link is in seen_jobs has set stop
StaleSeenCardStops ==
    /\ pc = "page"
    /\ stop
    /\ rejects # <<>>
    /\ Last(rejects)[4] = STALE
    /\ Last(rejects)[3] \in DOMAIN Get(seen_jobs, company)

(***************************************************************************)
(* C5 as claimed: after an exception on a listing page no later page of    *)
(* the company is requested and the run goes to the next company.          *)
(***************************************************************************)
PageErrorAbandonsCompany ==
    [][caught = "listing" =>
         /\ "get_listing" \notin ops'
         /\ pc' = "company"
         /\ ci' = ci + 1]_vars

(***************************************************************************)
(* C5 as amended.  An exception while a listing page is processed (the     *)
(* listing request, a card, the detail request) is caught and ends that    *)
(* page only: the page loop goes on with the next offset of the same       *)
(* company, which is requested unless the offsets are exhausted, in which  *)
(* case the run goes to the next company.                                  *)
(***************************************************************************)
CaughtStep ==
    /\ caught' # "none" =>
         /\ pc' = "page"
         /\ start' = start + PageStep
         /\ ci' = ci
         /\ ~stop'
         /\ UNCHANGED <<seen_jobs, notified, matches, rejects>>
    /\ (caught # "none" /\ start < PageLimit) =>
         /\ ops' = {"get_listing"}
         /\ pc' \in {"page", "card"} => ci' = ci
    /\ (caught # "none" /\ start >= PageLimit) =>
         /\ ops' = {}
         /\ pc' = "company"
         /\ ci' = ci + 1

PageErrorSkipsPageOnly == [][CaughtStep]_vars

\* the page at offset 0 failed, the page at offset 25 was requested
NextPageAfterError ==
    /\ pc = "page"
    /\ caught = "listing"
    /\ start = 2 * PageStep
    /\ jobs_left = MaxJobs
    /\ card_fault = 0

(***************************************************************************)
(* C6.  Whatever send_telegram_message meets (no credentials, success, a   *)
(* non-200 response, a transport error), the link stays recorded, the job  *)
(* is appended to matches and the loop goes on with the next card of the   *)
(* same page.                                                              *)
(***************************************************************************)
NotifyStep ==
    pc = "notify" =>
        /\ tg' \in {"noop", "ok", "non200", "exception"}
        /\ (tg' = "noop") <=> ~creds
        /\ ("post_telegram" \in ops') <=> creds
        /\ seen_jobs' = seen_jobs
        /\ cur.link \in DOMAIN Get(seen_jobs', company)
        /\ matches' = Append(matches, [title |-> cur.title, company |-> cur.comp,
                                       posted |-> cur.posted, link |-> cur.link])
        /\ caught' = "none"
        /\ pc' = "card"
        /\ idx' = idx + 1
        /\ UNCHANGED <<ci, start, ncards, stop>>

NotificationNeverBlocks == [][NotifyStep]_vars

\* after a transport error the job is in matches and a card is left on the page
MatchedDespiteTransportError ==
    /\ tg = "exception"
    /\ pc = "card"
    /\ idx <= ncards
    /\ matches # <<>>
    /\ Last(matches).link \in DOMAIN Get(seen_jobs, company)

(***************************************************************************)
(* C7.  Whatever fails, the run never stops before the end: main visits    *)
(* the companies in the order of the list, calls fetch_jobs for exactly    *)
(* those with an identifier, and writes seen_jobs_dict.json once, after    *)
(* the last company and not before.                                        *)
(***************************************************************************)
RunCompletes ==
    /\ visited = SubSeq(company_names, 1, Len(visited))
    /\ fetched = { c \in Range(visited) : c \in DOMAIN fc_cache }
    /\ pc = "done" => /\ visited = company_names
                      /\ seen_writes = 1
                      /\ seen_file = seen_jobs
    /\ pc # "done" => /\ seen_writes = 0
                      /\ ENABLED Next

\* a run with a skipped company and a faulty card has ended
RunEndedDespiteFailures ==
    /\ pc = "done"
    /\ card_fault # 0
    /\ fetched # {}
    /\ fetched # Names
    /\ seen_writes = 1

(***************************************************************************)
(* C8 as claimed: a card with a missing field aborts the run, so no later  *)
(* company is processed and seen_jobs_dict.json is not written.            *)
(***************************************************************************)
CardFaultAbortsRun ==
    card_fault # 0 => /\ ci = card_fault
                      /\ seen_writes = 0

(***************************************************************************)
(* C8 as amended.  A card with a missing field raises inside the try block *)
(* of fetch_jobs and the except clause catches it: the rest of the page is *)
(* dropped, the page loop goes on with the next offset, and the run ends   *)
(* as every run does, all companies visited and seen_jobs written.         *)
(***************************************************************************)
CardFaultStep ==
    caught' = "card" =>
        /\ pc = "card"
        /\ pc' = "page"
        /\ start' = start + PageStep
        /\ ci' = ci
        /\ card_fault' = ci
        /\ UNCHANGED <<stop, seen_jobs, notified, matches, rejects>>

CardFaultState ==
    /\ pc \in {"start", "company", "page", "card", "detail", "classify", "notify", "done"}
    /\ (pc = "done" /\ card_fault # 0) => /\ visited = company_names
                                          /\ seen_writes = 1
                                          /\ seen_file = seen_jobs

CardFaultIsCaught == []CardFaultState /\ [][CardFaultStep]_vars

\* after a faulty card of the first company the second was fetched and the run ended
LaterCompanyAfterCardFault ==
    /\ pc = "done"
    /\ card_fault = 1
    /\ company_names[2] \in fetched
    /\ seen_writes = 1

(***************************************************************************)
(* C9.  get_company_id_from_page: on a cache hit it returns the cached     *)
(* identifier, makes no request and writes nothing; when the request       *)
(* fails, times out or the snippet has no marker it returns None and       *)
(* leaves the cache and its file as they were; on success it stores the    *)
(* identifier and writes the cache file.                                   *)
(***************************************************************************)
ResolveStep ==
    (pc = "company" /\ ci <= Len(company_names)) =>
        IF company \in DOMAIN fc_cache
        THEN /\ cid' = fc_cache[company]
             /\ ops' = {}
             /\ profile' = NoProfile
             /\ UNCHANGED <<fc_cache, fc_file>>
        ELSE /\ "get_profile" \in ops'
             /\ profile'.kind \in {"timeout", "http_error", "ok"}
             /\ IF /\ profile'.kind = "ok"
                   /\ profile'.marker_line \in 1..SnippetLines
                THEN /\ cid' = profile'.id
                     /\ fc_cache' = (company :> cid') @@ fc_cache
                     /\ fc_file' = fc_cache'
                     /\ "write_fc" \in ops'
                ELSE /\ cid' = None
                     /\ "write_fc" \notin ops'
                     /\ UNCHANGED <<fc_cache, fc_file>>

ResolverFrame == [][ResolveStep]_vars

\* an identifier was resolved, stored and written
NewIdPersisted ==
    /\ profile.kind = "ok"
    /\ "write_fc" \in ops
    /\ cid # None
    /\ Last(visited) \in DOMAIN fc_file
    /\ fc_file[Last(visited)] = cid

(***************************************************************************)
(* C10.  seen_jobs only grows: no entry is removed or gets another         *)
(* timestamp.  It changes only when it is loaded and when a job is         *)
(* accepted, by that job's link under the current company; a step that     *)
(* rejects a card leaves it unchanged.                                     *)
(***************************************************************************)
SeenStep ==
    /\ Keeps(seen_jobs, seen_jobs')
    /\ seen_jobs' # seen_jobs =>
         \/ pc = "start" /\ seen_jobs' = seen_file
         \/ /\ pc = "classify"
            /\ pc' = "notify"
            /\ Passes(cur)
            /\ cur.link \notin DOMAIN Get(seen_jobs, company)
            /\ DOMAIN seen_jobs' = DOMAIN seen_jobs \cup {company}
            /\ DOMAIN seen_jobs'[company] = DOMAIN Get(seen_jobs, company) \cup {cur.link}
            /\ seen_jobs'[company][cur.link] = clock
    /\ Len(rejects') > Len(rejects) => seen_jobs' = seen_jobs

SeenJobsAppendOnly == [][SeenStep]_vars

\* a company has a loaded link and a link accepted in this run, after a reject
SecondLinkAdded ==
    /\ pc \in {"page", "card"}
    /\ rejects # <<>>
    /\ company \in DOMAIN seen_jobs
    /\ \E l1, l2 \in DOMAIN seen_jobs[company] :
           seen_jobs[company][l1] = 0 /\ seen_jobs[company][l2] >= 1

====
